---- MODULE Spec2Model ----
(***************************************************************************)
(* Model of the EPN.bz webhook receiver: the startup schema initialisation *)
(* (database.init_db), the per-request pipeline of                         *)
(* WebhookProcessor.process_webhook_with_path_secret, the partner adapter  *)
(* EpnBzPartner and the event store operation database.save_webhook_event. *)
(* The relational engine, the driver and the SMTP transport are the        *)
(* environment: their outcomes are drawn nondeterministically.             *)
(*                                                                         *)
(* The functions are modelled as written, on the assumption that the       *)
(* modules load: database.py imports MimeText and MimeMultipart, names the *)
(* standard library spells MIMEText and MIMEMultipart.                     *)
(***************************************************************************)
EXTENDS Integers, Sequences, FiniteSets, TLC

(***************************************************************************)
(* Bounds of the model.                                                    *)
(***************************************************************************)
\* number of webhook requests that arrive in one behaviour
MaxReq == 2
\* the store clock counts whole seconds 0..MaxClock
MaxClock == 1

\* number of init_db runs started against one store
MaxInstances == 2
\* ALTER statements of those runs that the store refuses for another reason
\* than an index that is already there
MaxAlterFailures == 1

\* max_retries of init_db
max_retries == 5
\* initial retry_delay of init_db, in seconds
initial_retry_delay == 5

Reqs == 1..MaxReq

Instances == 1..MaxInstances

(***************************************************************************)
(* Python values.  None is Python's None; Absent marks a key that is not   *)
(* in a dict, so that dict.get(k) and dict.get(k, default) can be told     *)
(* apart from a key that is present with value None.                       *)
(***************************************************************************)
None == "<None>"
Absent == "<absent>"

\* values that are no str: the list parse_qs gives for a key that occurs more
\* than once in a form body, and the int 7 of a JSON number
ListValue == "<list>"
JsonNumber == "<int 7>"

NonStrings == {ListValue, JsonNumber}

\* bool(v) for the values of the model
Truthy(v) == v \notin {None, Absent, ""}

\* dict.get(key): None when the key is missing
Get(d, k) == IF d[k] = Absent THEN None ELSE d[k]

\* dict.get(key, default): the default only when the key is missing
GetDefault(d, k, default) == IF d[k] = Absent THEN default ELSE d[k]

(***************************************************************************)
(* Inputs.  A request carries the path token and a body; the body is the   *)
(* outcome class of (method, content type, bytes) in parse_webhook.        *)
(***************************************************************************)
Tokens == {"ABC123", "WRONGTOKEN"}

Payload(c, o, u, s, rv, cf, ti) ==
    [click_id |-> c, order_number |-> o, uniq_id |-> u, order_status |-> s,
     revenue |-> rv, commission_fee |-> cf, type_id |-> ti,
     _client_ip |-> Absent, _user_agent |-> Absent]

\* the payload p with partner-supplied values under the names parse_webhook
\* uses for its metadata
WithMetadataKeys(p, ip, ua) == [p EXCEPT !._client_ip = ip, !._user_agent = ua]

\* a payload that carries no commission_fee and no type_id
Fields(c, o, u, s, rv) == Payload(c, o, u, s, rv, Absent, Absent)

\* payloads with both required fields: the same order with and without a
\* uniq_id in two statuses, a redelivery of uniq_id u1 in status waiting with
\* other field values, among them amounts that are empty or no number
ValidPayloads ==
    { Fields("c1", "o1", u, s, "10") :
        u \in {Absent, "u1"}, s \in {"waiting", "Completed"} }
    \cup { WithMetadataKeys(Payload("c2", "o2", "u1", "waiting", "abc", "", "3"),
                            "6.6.6.6", "spoofed") }

\* payloads lacking click_id or order_number (key missing, or empty value)
IncompletePayloads ==
    { Fields(Absent, "o1", "u1", "waiting", "10"),
      Fields("", "o1", "u1", "waiting", "10"),
      Fields("c1", Absent, "u1", "waiting", "10"),
      Fields("c1", "", Absent, Absent, "10"),
      Fields(Absent, Absent, "u1", "waiting", "10") }

NoFields == Fields(Absent, Absent, Absent, Absent, Absent)

\* a request as parse_webhook sees it: the body, the X-Forwarded-For header
\* (Absent when not sent), the peer address request.client.host (None when
\* request.client is None) and the User-Agent header (Absent when not sent)
Request(kind, fields, forwarded_for, peer, user_agent) ==
    [kind |-> kind, fields |-> fields, forwarded_for |-> forwarded_for,
     peer |-> peer, user_agent |-> user_agent]

\* a request that came straight from the partner's sender
Direct(kind, fields) == Request(kind, fields, Absent, "192.0.2.10", "EPN-Webhook/1.0")

\* kind "object": a JSON object, a form body or GET query parameters;
\* kind "bad_json": declared application/json that does not decode;
\* kind "raw_text": undeclared content type that is not JSON
Bodies ==
    { Direct("object", f) : f \in ValidPayloads \cup IncompletePayloads }
    \cup { Direct("bad_json", NoFields), Direct("raw_text", NoFields) }

NoBody == Request("none", NoFields, Absent, None, Absent)

\* the value of raw_data before parse_webhook has returned
NoRaw == Payload(None, None, None, None, None, None, None)

\* processed_data = None, the value the handler starts with
NoEvent ==
    [partner |-> None, event_type |-> None, click_id |-> None,
     order_number |-> None, uniq_id |-> None, order_status |-> None,
     type_id |-> None, revenue |-> 0, commission_fee |-> 0,
     client_ip |-> None, user_agent |-> None, raw_data |-> NoRaw]

(***************************************************************************)
(* Partner adapter (base_partner.py, epn_bz.py).                           *)
(***************************************************************************)
\* BasePartner.verify_path_secret_token
verify_path_secret_token(partner_secret, provided_token) ==
    IF ~Truthy(partner_secret) THEN TRUE
    ELSE IF ~Truthy(provided_token) THEN FALSE
    ELSE provided_token = partner_secret

\* EpnBzPartner.verify_secret_token
verify_secret_token(partner_secret, provided_token) ==
    verify_path_secret_token(partner_secret, provided_token)

\* EpnBzPartner.validate_request
validate_request == TRUE

HttpError(code, text) == [ok |-> FALSE, status |-> code, detail |-> text]

\* x_forwarded_for.split(",")[0].strip() on the header values of the model
FirstHop(h) ==
    CASE h = "203.0.113.5, 10.0.0.1" -> "203.0.113.5"
      [] h = " 203.0.113.5 " -> "203.0.113.5"
      [] OTHER -> h

\* BasePartner.get_client_ip
get_client_ip(request) ==
    IF Truthy(request.forwarded_for) THEN FirstHop(request.forwarded_for)
    ELSE IF request.peer # None THEN request.peer
    ELSE "unknown"

\* parse_webhook writing its metadata only under the names the payload left free
parse_webhook_setdefault(b) ==
    LET meta(data) ==
          [data EXCEPT
             !._client_ip = IF @ = Absent THEN get_client_ip(b) ELSE @,
             !._user_agent = IF @ = Absent THEN GetDefault(b, "user_agent", "") ELSE @]
    IN  CASE b.kind = "object" -> [ok |-> TRUE, data |-> meta(b.fields)]
          [] b.kind = "raw_text" -> [ok |-> TRUE, data |-> meta(NoFields)]
          [] b.kind = "bad_json" -> HttpError(400, "Invalid JSON format")
          [] OTHER -> HttpError(400, "Failed to parse webhook data")

\* EpnBzPartner.parse_webhook: the raw field mapping with the transport
\* metadata written over it, or 400
parse_webhook(b) ==
    LET meta(data) ==
          [data EXCEPT !._client_ip = get_client_ip(b),
                       !._user_agent = GetDefault(b, "user_agent", "")]
    IN  CASE b.kind = "object" -> [ok |-> TRUE, data |-> meta(b.fields)]
          [] b.kind = "raw_text" -> [ok |-> TRUE, data |-> meta(NoFields)]
          [] b.kind = "bad_json" -> HttpError(400, "Invalid JSON format")
          [] OTHER -> HttpError(400, "Failed to parse webhook data")

\* str.lower() on the status strings of the model
Lower(s) ==
    CASE s = "Completed" -> "completed"
      [] s = "COMPLETED" -> "completed"
      [] s = "CONFIRMED" -> "confirmed"
      [] s = "Approved" -> "approved"
      [] s = "Canceled" -> "canceled"
      [] s = "CANCELLED" -> "cancelled"
      [] s = "Declined" -> "declined"
      [] s = "REJECTED" -> "rejected"
      [] s = "WAITING" -> "waiting"
      [] s = "Pending" -> "pending"
      [] s = "Refunded" -> "refunded"
      [] s = "UNKNOWN" -> "unknown"
      [] OTHER -> s

\* what _normalize_order_status gives when status.lower() raises
AttributeError == "<AttributeError>"

\* _normalize_order_status comparing the status as it came, without lower()
normalize_order_status_case_sensitive(status) ==
    IF ~Truthy(status) THEN "unknown"
    ELSE IF status \in NonStrings THEN AttributeError
    ELSE CASE status \in {"waiting"} -> "waiting"
           [] status \in {"pending"} -> "pending"
           [] status \in {"completed", "confirmed", "approved"} -> "completed"
           [] status \in {"rejected", "cancelled", "canceled", "declined"} -> "rejected"
           [] OTHER -> Lower(status)

\* EpnBzPartner._normalize_order_status; a value that is true and no str has
\* no lower()
normalize_order_status(status) ==
    IF ~Truthy(status) THEN "unknown"
    ELSE IF status \in NonStrings THEN AttributeError
    ELSE LET status_lower == Lower(status) IN
         CASE status_lower \in {"waiting"} -> "waiting"
           [] status_lower \in {"pending"} -> "pending"
           [] status_lower \in {"completed", "confirmed", "approved"} -> "completed"
           [] status_lower \in {"rejected", "cancelled", "canceled", "declined"} -> "rejected"
           [] OTHER -> status_lower

\* EpnBzPartner._determine_event_type
determine_event_type(order_status) ==
    CASE order_status = "waiting" -> "order.created"
      [] order_status = "pending" -> "order.pending"
      [] order_status = "completed" -> "order.completed"
      [] order_status = "rejected" -> "order.rejected"
      [] OTHER -> "order.unknown"

\* float(value) on the amount values of the model, in whole units;
\* ok is FALSE where Python raises ValueError (a string that is no number)
\* or TypeError (a list)
ParseFloat(s) ==
    CASE s = "10" -> [ok |-> TRUE, value |-> 10]
      [] s = "25" -> [ok |-> TRUE, value |-> 25]
      [] s = "-5" -> [ok |-> TRUE, value |-> 0 - 5]
      [] s = " 10 " -> [ok |-> TRUE, value |-> 10]
      [] s = JsonNumber -> [ok |-> TRUE, value |-> 7]
      [] OTHER -> [ok |-> FALSE, value |-> 0]

\* EpnBzPartner._extract_amount
extract_amount(data, field) ==
    LET value == GetDefault(data, field, "0") IN
    IF value = None \/ value = "" THEN 0
    ELSE IF value = "0" THEN 0
    ELSE IF ParseFloat(value).ok THEN ParseFloat(value).value ELSE 0

\* int(value) on the values of the model, the int written in decimal; ok is
\* FALSE where Python raises ValueError or TypeError
ParseInt(s) ==
    CASE s = "3" -> [ok |-> TRUE, value |-> "3"]
      [] s = " 3 " -> [ok |-> TRUE, value |-> "3"]
      [] s = "-5" -> [ok |-> TRUE, value |-> "-5"]
      [] s = JsonNumber -> [ok |-> TRUE, value |-> "7"]
      [] OTHER -> [ok |-> FALSE, value |-> None]

\* EpnBzPartner._extract_int
extract_int(data, field) ==
    LET value == Get(data, field) IN
    IF value = None \/ value = "" THEN None
    ELSE IF ParseInt(value).ok THEN ParseInt(value).value ELSE None

\* the f-string that synthesizes a uniq_id
gen_uniq_id(order_number, click_id) == "gen_" \o order_number \o "_" \o click_id

\* process_data without the check of order_number
process_data_unchecked(data) ==
    IF ~Truthy(Get(data, "click_id"))
    THEN HttpError(400, "Missing required field: click_id")
    ELSE [ok |-> TRUE,
          event |->
            [partner |-> "epn_bz",
             event_type |-> "order.unknown",
             click_id |-> Get(data, "click_id"),
             order_number |-> Get(data, "order_number"),
             uniq_id |-> GetDefault(data, "uniq_id", "gen"),
             order_status |-> "unknown",
             type_id |-> None,
             revenue |-> 0,
             commission_fee |-> 0,
             client_ip |-> Get(data, "_client_ip"),
             user_agent |-> Get(data, "_user_agent"),
             raw_data |-> data]]

\* the event process_data builds once the required fields are there
build_event(data, order_status) ==
    [partner |-> "epn_bz",
     event_type |-> determine_event_type(order_status),
     click_id |-> Get(data, "click_id"),
     order_number |-> Get(data, "order_number"),
     uniq_id |-> GetDefault(data, "uniq_id",
                            gen_uniq_id(Get(data, "order_number"),
                                        Get(data, "click_id"))),
     order_status |-> order_status,
     type_id |-> extract_int(data, "type_id"),
     revenue |-> extract_amount(data, "revenue"),
     commission_fee |-> extract_amount(data, "commission_fee"),
     client_ip |-> Get(data, "_client_ip"),
     user_agent |-> Get(data, "_user_agent"),
     raw_data |-> data]

\* process_data refusing a payload whose amount is given and is no number
process_data_strict_amounts(data) ==
    IF ~Truthy(Get(data, "click_id"))
    THEN HttpError(400, "Missing required field: click_id")
    ELSE IF ~Truthy(Get(data, "order_number"))
    THEN HttpError(400, "Missing required field: order_number")
    ELSE IF normalize_order_status(Get(data, "order_status")) = AttributeError
    THEN HttpError(400, "Failed to process webhook data")
    ELSE IF \E f \in {"revenue", "commission_fee"} :
              Truthy(data[f]) /\ ~ParseFloat(data[f]).ok
    THEN HttpError(400, "Failed to process webhook data")
    ELSE [ok |-> TRUE,
          event |-> build_event(data, normalize_order_status(Get(data, "order_status")))]

\* EpnBzPartner.process_data: the normalized event, or 400; an exception
\* other than HTTPException raised on the way becomes 400
process_data(data) ==
    LET click_id == Get(data, "click_id")
        order_number == Get(data, "order_number")
        order_status == normalize_order_status(Get(data, "order_status"))
    IN  IF ~Truthy(click_id)
        THEN HttpError(400, "Missing required field: click_id")
        ELSE IF ~Truthy(order_number)
        THEN HttpError(400, "Missing required field: order_number")
        ELSE IF order_status = AttributeError
        THEN HttpError(400, "Failed to process webhook data")
        ELSE [ok |-> TRUE, event |-> build_event(data, order_status)]

(***************************************************************************)
(* Event store (database.py).  The driver reports 0 for success, a MySQL   *)
(* error code for a pymysql.MySQLError, and -1 for an exception that is    *)
(* not a driver error (DATABASE_URL missing or malformed, bad port, ...).  *)
(***************************************************************************)
\* outcomes of pymysql.connect followed by SELECT 1
ConnCodes == {0, -1, 2003, 2013, 1045, 1049, 1040}

\* outcomes of cursor.execute(insert_sql): success, duplicate entry, lost
\* connection during query (read timeout), data too long
ExecCodes == {0, 1062, 2013, 1406}

\* the driver's codes for a connect timeout (2003) and for a connection lost
\* while waiting for an answer, which is what read_timeout raises (2013)
TimeoutCodes == {2003, 2013}

\* str(e) of a driver error; the code inspects it for "Duplicate entry" only
DriverMessage(code) ==
    CASE code = 1062 -> "Duplicate entry"
      [] code = 2003 -> "Can't connect to MySQL server on 'db.internal'"
      [] code = 2013 -> "Lost connection to MySQL server during query"
      [] code = 1045 -> "Access denied for user 'webhook'@'10.0.0.7'"
      [] code = 1049 -> "Unknown database 'webhooks'"
      [] code = 1040 -> "Too many connections"
      [] code = 1406 -> "Data too long for column 'click_id'"
      [] OTHER -> "invalid literal for int() with base 10"

\* get_db_connection without its last handler: an exception that is no driver
\* error leaves it as it is
get_db_connection_unguarded(code) ==
    IF code = 0 THEN "connection"
    ELSE IF code = -1 THEN "Exception"
    ELSE IF code \in {2003, 2002, 2005, 2006, 2013, 1045, 1049}
    THEN "DatabaseConnectionError"
    ELSE "DatabaseOperationError"

\* get_db_connection: a connection or the exception class it raises
get_db_connection(code) ==
    IF code = 0 THEN "connection"
    ELSE IF code = -1 THEN "DatabaseConnectionError"
    ELSE IF code \in {2003, 2002, 2005, 2006, 2013} THEN "DatabaseConnectionError"
    ELSE IF code \in {1045} THEN "DatabaseConnectionError"
    ELSE IF code \in {1049} THEN "DatabaseConnectionError"
    ELSE "DatabaseOperationError"

ExecClass(code) ==
    CASE code = 0 -> "ok"
      [] code = 1062 -> "duplicate_entry"
      [] code = 2013 -> "timeout"
      [] OTHER -> "operation_error"

\* a unique key over partner and uniq_id alone
ConflictKey_without_status(x) == <<x.partner, x.uniq_id>>

\* the columns of the unique key unique_partner_uniq_status
ConflictKey(x) == <<x.partner, x.uniq_id, x.order_status>>

\* INSERT ... ON DUPLICATE KEY UPDATE as one statement at store time t:
\* the columns listed after ON DUPLICATE KEY UPDATE are overwritten, a
\* collision exists only when the unique index does
Upsert(rs, ev, t, uidx) ==
    LET hit == {row \in rs : ConflictKey(row) = ConflictKey(ev)} IN
    IF uidx /\ hit # {}
    THEN (rs \ hit) \cup
         { [row EXCEPT !.event_type = ev.event_type,
                       !.type_id = ev.type_id,
                       !.revenue = ev.revenue,
                       !.commission_fee = ev.commission_fee,
                       !.client_ip = ev.client_ip,
                       !.user_agent = ev.user_agent,
                       !.raw_data = ev.raw_data,
                       !.updated_at = t] : row \in hit }
    ELSE rs \cup
         { [id |-> Cardinality(rs) + 1,
            partner |-> ev.partner,
            event_type |-> ev.event_type,
            click_id |-> ev.click_id,
            order_number |-> ev.order_number,
            uniq_id |-> ev.uniq_id,
            order_status |-> ev.order_status,
            type_id |-> ev.type_id,
            revenue |-> ev.revenue,
            commission_fee |-> ev.commission_fee,
            client_ip |-> ev.client_ip,
            user_agent |-> ev.user_agent,
            raw_data |-> ev.raw_data,
            processed_at |-> t,
            created_at |-> t,
            updated_at |-> t] }

\* send_error_email letting a failure of the SMTP transport propagate
Alert_raising(subject, webhook_data, configured, transport) ==
    [subject |-> subject,
     webhook_data |-> webhook_data,
     result |-> IF ~configured THEN "skipped" ELSE transport,
     returned |-> configured /\ transport = "sent",
     raised |-> configured /\ transport = "failed"]

\* send_error_email: the record of one call.  It returns False when the SMTP
\* settings are incomplete (result "skipped") and, the whole body being inside
\* try/except Exception, when anything in it fails (result "failed"); it
\* returns True when the message was handed over (result "sent")
Alert(subject, webhook_data, configured, transport) ==
    [subject |-> subject,
     webhook_data |-> webhook_data,
     result |-> IF ~configured THEN "skipped" ELSE transport,
     returned |-> configured /\ transport = "sent",
     raised |-> FALSE]

\* save_webhook_event without the alert of the DatabaseConnectionError handler
save_webhook_event_silent(conn_code, exec_code) ==
    IF get_db_connection(conn_code) = "DatabaseConnectionError"
    THEN [raised |-> "DatabaseConnectionError", message |-> "other",
          subject |-> "", executed |-> FALSE]
    ELSE [raised |-> "none", message |-> "", subject |-> "", executed |-> TRUE]

\* save_webhook_event whose last handler re-raises without an alert
save_webhook_event_unreported(conn_code, exec_code) ==
    LET conn == get_db_connection(conn_code) IN
    IF conn = "DatabaseConnectionError"
    THEN [raised |-> "DatabaseConnectionError", message |-> DriverMessage(conn_code),
          subject |-> "Database Connection Error", executed |-> FALSE]
    ELSE IF conn = "DatabaseOperationError"
    THEN [raised |-> "DatabaseOperationError", message |-> DriverMessage(conn_code),
          subject |-> "Database Operation Error", executed |-> FALSE]
    ELSE IF exec_code # 0
    THEN [raised |-> "Exception", message |-> DriverMessage(exec_code),
          subject |-> "", executed |-> TRUE]
    ELSE [raised |-> "none", message |-> "", subject |-> "", executed |-> TRUE]

\* save_webhook_event: what it raises, the alert subject it passes to
\* send_error_email ("" when it sends none) and whether the statement ran
save_webhook_event(conn_code, exec_code) ==
    LET conn == get_db_connection(conn_code) IN
    IF conn = "DatabaseConnectionError"
    THEN [raised |-> "DatabaseConnectionError", message |-> DriverMessage(conn_code),
          subject |-> "Database Connection Error", executed |-> FALSE]
    ELSE IF conn = "DatabaseOperationError"
    THEN [raised |-> IF DriverMessage(conn_code) = "Duplicate entry"
                     THEN "none" ELSE "DatabaseOperationError",
          message |-> DriverMessage(conn_code),
          subject |-> "Database Operation Error", executed |-> FALSE]
    ELSE IF exec_code # 0
    THEN [raised |-> "Exception", message |-> DriverMessage(exec_code),
          subject |-> "Unexpected Database Error", executed |-> TRUE]
    ELSE [raised |-> "none", message |-> "", subject |-> "", executed |-> TRUE]

(***************************************************************************)
(* Ingestion coordinator (webhook_processor.py).                           *)
(***************************************************************************)
NoResponse == [status |-> 0, detail |-> "", database_status |-> ""]

Response(code, text, db) == [status |-> code, detail |-> text, database_status |-> db]

\* the secret check answering 403 to a wrong token
secret_check_forbidden(configured, provided) ==
    IF ~Truthy(configured) THEN HttpError(500, "Service configuration error")
    ELSE IF provided # configured THEN HttpError(403, "Invalid secret token")
    ELSE [ok |-> TRUE, status |-> 0, detail |-> ""]

\* the secret check letting every request through when no secret is configured
secret_check_open(configured, provided) ==
    IF ~Truthy(configured) THEN [ok |-> TRUE, status |-> 0, detail |-> ""]
    ELSE IF provided # configured THEN HttpError(401, "Invalid secret token")
    ELSE [ok |-> TRUE, status |-> 0, detail |-> ""]

\* the secret check at the head of process_webhook_with_path_secret
secret_check(configured, provided) ==
    IF ~Truthy(configured) THEN HttpError(500, "Service configuration error")
    ELSE IF provided # configured THEN HttpError(401, "Invalid secret token")
    ELSE [ok |-> TRUE, status |-> 0, detail |-> ""]

\* WebhookProcessor._determine_partner and the registry filled by main.py
determine_partner == "epn_bz"

registered_partners == {"epn_bz"}

\* the handlers putting the text of the exception into the response
map_save_outcome_leaky(out) ==
    CASE out.raised = "none" -> Response(200, "", "healthy")
      [] out.raised = "DatabaseConnectionError" -> Response(503, out.message, "")
      [] out.raised = "DatabaseOperationError" -> Response(503, out.message, "")
      [] OTHER -> Response(500, out.message, "")

\* the try/except around save_webhook_event and the outer handlers
map_save_outcome(out) ==
    CASE out.raised = "none" -> Response(200, "", "healthy")
      [] out.raised = "DatabaseConnectionError" ->
            Response(503, "Database temporarily unavailable, please retry later", "")
      [] out.raised = "DatabaseOperationError" ->
            IF out.message = "Duplicate entry"
            THEN Response(200, "", "duplicate_handled")
            ELSE Response(503, "Database operation error, please retry later", "")
      [] OTHER -> Response(500, "Internal server error", "")

\* the steps with the adapter's token verification ahead of its validation
StepOrder_swapped ==
    << "secret_check", "partner_selection", "body_read", "token_verification",
       "validation", "parse", "normalize", "persist" >>

\* the order of the steps of process_webhook_with_path_secret
StepOrder ==
    << "secret_check", "partner_selection", "body_read", "validation",
       "token_verification", "parse", "normalize", "persist" >>

StepIndex(step) == CHOOSE i \in 1..Len(StepOrder) : StepOrder[i] = step

\* where control goes after a step: on to the next step, or out with a response
AfterStep(step, ok) ==
    IF ok /\ StepIndex(step) < Len(StepOrder)
    THEN StepOrder[StepIndex(step) + 1]
    ELSE "responded"

(***************************************************************************)
(* State.                                                                  *)
(***************************************************************************)
VARIABLES
    secret_token,      \* WEBHOOK_SECRET_TOKEN, None when unset
    smtp_configured,   \* SMTP_USERNAME, SMTP_PASSWORD and ALERT_EMAIL all set
    init_state,        \* "starting", "ready" (init_db returned), "failed" (it raised)
    attempt,           \* loop variable of init_db (0 once init_db has returned)
    retry_delay,       \* retry_delay of init_db (reset once init_db has returned)
    init_alerts,       \* calls of send_error_email made by init_db
    table_exists,      \* the events table exists in the store
    unique_index,      \* the unique key unique_partner_uniq_status exists
    rows,              \* the rows of the events table
    now,               \* CURRENT_TIMESTAMP of the store, in whole seconds
    running,           \* the task that holds the event loop, {} when none
    pc,                \* per request: "idle", the step to run next, "responded"
    token,             \* per request: the secret_token path parameter
    body,              \* per request: the request body
    raw_data,          \* per request: result of parse_webhook
    processed_data,    \* per request: result of process_data
    response,          \* per request: the HTTP response
    responses,         \* per request: number of responses produced
    alerts,            \* per request: calls of send_error_email
    done,              \* per request: the steps run so far, in order
    save_calls,        \* per request: number of calls of save_webhook_event
    store_outcome,     \* per request: what the store did in save_webhook_event
    call_request,      \* the request of a direct call of parse_webhook
    call_data,         \* the argument of a direct call of process_data
    call_result,       \* what that call returned or raised
    boot_pc,           \* per init_db instance: the statement it runs next
    boot_store,        \* the table and the indexes those instances work on
    boot_alter_failures \* ALTERs of theirs that failed for another reason
                       \* than an index that is already there

vars ==
    << secret_token, smtp_configured, init_state, attempt, retry_delay, init_alerts,
       table_exists, unique_index, rows, now, running, pc, token, body, raw_data,
       processed_data, response, responses, alerts, done, save_calls, store_outcome,
       call_request, call_data, call_result, boot_pc, boot_store,
       boot_alter_failures >>

call_vars == << call_request, call_data, call_result >>

boot_vars == << boot_pc, boot_store, boot_alter_failures >>

config_vars == << secret_token, smtp_configured >>

init_vars == << init_state, attempt, retry_delay, init_alerts >>

schema_vars == << table_exists, unique_index >>

request_vars ==
    << running, pc, token, body, raw_data, processed_data, response, responses,
       alerts, done, save_calls, store_outcome >>

NoOutcome ==
    [conn |-> "not_called", exec |-> "not_run", timed_out |-> FALSE,
     connection_open |-> FALSE]

\* the outcome of a call of process_data: the event it returned, or the
\* HTTPException it raised
CallResult(res) ==
    IF res.ok
    THEN [ok |-> TRUE, status |-> 0, detail |-> "", event |-> res.event]
    ELSE [ok |-> FALSE, status |-> res.status, detail |-> res.detail, event |-> NoEvent]

NoCall == [ok |-> FALSE, status |-> 0, detail |-> "", event |-> NoEvent]

Init ==
    /\ secret_token \in {None, "ABC123"}
    /\ smtp_configured \in BOOLEAN
    /\ init_state = "starting"
    /\ attempt = 0
    /\ retry_delay = initial_retry_delay
    /\ init_alerts = << >>
    /\ table_exists = FALSE
    /\ unique_index = FALSE
    /\ rows = {}
    /\ now = 0
    /\ running = {}
    /\ pc = [r \in Reqs |-> "idle"]
    /\ token = [r \in Reqs |-> None]
    /\ body = [r \in Reqs |-> NoBody]
    /\ raw_data = [r \in Reqs |-> NoRaw]
    /\ processed_data = [r \in Reqs |-> NoEvent]
    /\ response = [r \in Reqs |-> NoResponse]
    /\ responses = [r \in Reqs |-> 0]
    /\ alerts = [r \in Reqs |-> << >>]
    /\ done = [r \in Reqs |-> << >>]
    /\ save_calls = [r \in Reqs |-> 0]
    /\ store_outcome = [r \in Reqs |-> NoOutcome]
    /\ call_request = NoBody
    /\ call_data = NoRaw
    /\ call_result = NoCall
    /\ boot_pc = [i \in Instances |-> [at |-> "idle", k |-> 0]]
    /\ boot_store = [table |-> FALSE, indexes |-> {}]
    /\ boot_alter_failures = 0

(***************************************************************************)
(* Startup: main.lifespan awaits init_db before any request is served.     *)
(***************************************************************************)
\* the handlers of init_db sleeping and retrying after the last pass as well
should_retry_after_last(k) == k < max_retries

\* the test of both handlers of init_db: sleep and go round again, or send
\* the alert and re-raise
should_retry(k) == k < max_retries - 1

\* one pass of the retry loop of init_db
InitAttempt ==
    /\ init_state = "starting"
    /\ \E conn_code \in ConnCodes, create_ok \in BOOLEAN, alter_ok \in BOOLEAN,
          describe_ok \in BOOLEAN, transport \in {"sent", "failed"} :
         \* the draws that cannot matter are fixed
         /\ conn_code # 0 => create_ok
         /\ ~create_ok => alter_ok /\ describe_ok
         /\ should_retry(attempt) \/ ~smtp_configured => transport = "sent"
         /\ LET conn == get_db_connection(conn_code)
                connected == conn = "connection"
                created == connected /\ create_ok
                table_after == table_exists \/ created
                \* ALTER TABLE ... ADD UNIQUE KEY: "Duplicate key name" when the
                \* index is there, any other failure is logged and passed over
                index_after ==
                    IF created /\ table_after
                    THEN unique_index \/ alter_ok
                    ELSE unique_index
                succeeded == created /\ table_after /\ describe_ok
            IN  /\ table_exists' = table_after
                /\ unique_index' = index_after
                /\ IF succeeded
                   THEN /\ init_state' = "ready"
                        /\ attempt' = 0
                        /\ retry_delay' = initial_retry_delay
                        /\ UNCHANGED init_alerts
                   ELSE IF should_retry(attempt)
                   THEN /\ attempt' = attempt + 1
                        /\ retry_delay' = retry_delay * 2
                        /\ UNCHANGED << init_state, init_alerts >>
                   ELSE /\ init_state' = "failed"
                        /\ init_alerts' =
                             Append(init_alerts,
                                    Alert(IF connected
                                          THEN "Database Initialization Unexpected Error"
                                          ELSE "Database Initialization Failed",
                                          NoEvent, smtp_configured, transport))
                        /\ UNCHANGED << attempt, retry_delay >>
    /\ UNCHANGED << config_vars, call_vars, boot_vars, rows, now, request_vars >>

\* the store clock advances by one second; the clock is read only by the
\* upsert, so a second that passes while a task holds the loop is the same
\* as one that passes just before the task took it
Tick ==
    /\ init_state = "ready"
    /\ running = {}
    /\ now < MaxClock
    /\ now' = now + 1
    /\ UNCHANGED << config_vars, call_vars, boot_vars, init_vars, schema_vars, rows, request_vars >>

(***************************************************************************)
(* One request: WebhookProcessor.process_webhook_with_path_secret.  The    *)
(* handler runs on the event loop from one suspension point to the next;   *)
(* the only await that can suspend is request.body().                      *)
(***************************************************************************)
\* a step ends the request with an HTTP error
Fail(r, step, code, text) ==
    /\ pc' = [pc EXCEPT ![r] = AfterStep(step, FALSE)]
    /\ done' = [done EXCEPT ![r] = Append(@, [step |-> step, ok |-> FALSE])]
    /\ response' = [response EXCEPT ![r] = Response(code, text, "")]
    /\ responses' = [responses EXCEPT ![r] = @ + 1]
    /\ running' = {}

\* a step succeeds and control goes on
Pass(r, step) ==
    /\ pc' = [pc EXCEPT ![r] = AfterStep(step, TRUE)]
    /\ done' = [done EXCEPT ![r] = Append(@, [step |-> step, ok |-> TRUE])]
    /\ UNCHANGED << response, responses >>

\* a task that has produced its response ends before the loop resumes another
NoneFinishing == \A q \in Reqs : pc[q] # "responded"

\* the transport hands a request to the handler
Arrive(r) ==
    /\ init_state = "ready"
    /\ pc[r] = "idle"
    /\ \A q \in Reqs : q < r => pc[q] # "idle"
    /\ \E t \in Tokens : token' = [token EXCEPT ![r] = t]
    /\ pc' = [pc EXCEPT ![r] = StepOrder[1]]
    /\ UNCHANGED << config_vars, call_vars, boot_vars, init_vars, schema_vars, rows, now, running, body,
                    raw_data, processed_data, response, responses, alerts, done,
                    save_calls, store_outcome >>

CheckSecret(r) ==
    /\ pc[r] = "secret_check"
    /\ running = {}
    /\ NoneFinishing
    /\ LET res == secret_check(secret_token, token[r]) IN
         IF res.ok
         THEN Pass(r, "secret_check") /\ running' = {r}
         ELSE Fail(r, "secret_check", res.status, res.detail)
    /\ UNCHANGED << config_vars, call_vars, boot_vars, init_vars, schema_vars, rows, now, token, body,
                    raw_data, processed_data, alerts, save_calls, store_outcome >>

\* the handler then reaches await request.body() and gives up the loop
SelectPartner(r) ==
    /\ pc[r] = "partner_selection"
    /\ running = {r}
    /\ IF determine_partner \in registered_partners
       THEN Pass(r, "partner_selection") /\ running' = {}
       ELSE Fail(r, "partner_selection", 404, "Partner epn_bz not supported")
    /\ UNCHANGED << config_vars, call_vars, boot_vars, init_vars, schema_vars, rows, now, token, body,
                    raw_data, processed_data, alerts, save_calls, store_outcome >>

\* request.body() returns the bytes, or raises when the client went away
ReadBody(r) ==
    /\ pc[r] = "body_read"
    /\ running = {}
    /\ NoneFinishing
    /\ \/ \E b \in Bodies :
              /\ Pass(r, "body_read")
              /\ body' = [body EXCEPT ![r] = b]
              /\ running' = {r}
       \/ /\ Fail(r, "body_read", 500, "Internal server error")
          /\ UNCHANGED body
    /\ UNCHANGED << config_vars, call_vars, boot_vars, init_vars, schema_vars, rows, now, token,
                    raw_data, processed_data, alerts, save_calls, store_outcome >>

Validate(r) ==
    /\ pc[r] = "validation"
    /\ running = {r}
    /\ IF validate_request
       THEN Pass(r, "validation") /\ UNCHANGED running
       ELSE Fail(r, "validation", 400, "Request validation failed")
    /\ UNCHANGED << config_vars, call_vars, boot_vars, init_vars, schema_vars, rows, now, token, body,
                    raw_data, processed_data, alerts, save_calls, store_outcome >>

\* main.py gives the adapter the same WEBHOOK_SECRET_TOKEN as the coordinator
VerifyToken(r) ==
    /\ pc[r] = "token_verification"
    /\ running = {r}
    /\ IF verify_secret_token(secret_token, token[r])
       THEN Pass(r, "token_verification") /\ UNCHANGED running
       ELSE Fail(r, "token_verification", 401, "Token verification failed")
    /\ UNCHANGED << config_vars, call_vars, boot_vars, init_vars, schema_vars, rows, now, token, body,
                    raw_data, processed_data, alerts, save_calls, store_outcome >>

Parse(r) ==
    /\ pc[r] = "parse"
    /\ running = {r}
    /\ LET res == parse_webhook(body[r]) IN
         IF res.ok
         THEN /\ Pass(r, "parse")
              /\ raw_data' = [raw_data EXCEPT ![r] = res.data]
              /\ UNCHANGED running
         ELSE /\ Fail(r, "parse", res.status, res.detail)
              /\ UNCHANGED raw_data
    /\ UNCHANGED << config_vars, call_vars, boot_vars, init_vars, schema_vars, rows, now, token, body,
                    processed_data, alerts, save_calls, store_outcome >>

Normalize(r) ==
    /\ pc[r] = "normalize"
    /\ running = {r}
    /\ LET res == process_data(raw_data[r]) IN
         IF res.ok
         THEN /\ Pass(r, "normalize")
              /\ processed_data' = [processed_data EXCEPT ![r] = res.event]
              /\ UNCHANGED running
         ELSE /\ Fail(r, "normalize", res.status, res.detail)
              /\ UNCHANGED processed_data
    /\ UNCHANGED << config_vars, call_vars, boot_vars, init_vars, schema_vars, rows, now, token, body,
                    raw_data, alerts, save_calls, store_outcome >>

\* await save_webhook_event(processed_data) and the mapping of its outcome
\* to the response; a statement that lost its connection may or may not
\* have been applied by the store
Persist(r) ==
    /\ pc[r] = "persist"
    /\ running = {r}
    /\ \E conn_code \in ConnCodes, exec_code \in ExecCodes, applied \in BOOLEAN,
          transport \in {"sent", "failed"} :
         \* the draws that cannot matter are fixed
         /\ conn_code # 0 => exec_code = 0
         /\ exec_code # 2013 => applied
         /\ (conn_code = 0 /\ exec_code = 0) \/ ~smtp_configured => transport = "sent"
         /\ LET saved == save_webhook_event(conn_code, exec_code)
                alert == Alert(saved.subject, processed_data[r], smtp_configured,
                               transport)
                \* an exception leaving send_error_email inside an except
                \* block would take the place of the one being handled
                out == IF saved.subject # "" /\ alert.raised
                       THEN [saved EXCEPT !.raised = "Exception"]
                       ELSE saved
                ran == out.executed /\ (exec_code = 0 \/ (exec_code = 2013 /\ applied))
            IN  /\ rows' = IF ran
                           THEN Upsert(rows, processed_data[r], now, unique_index)
                           ELSE rows
                /\ alerts' = [alerts EXCEPT ![r] =
                                IF out.subject = "" THEN @ ELSE Append(@, alert)]
                /\ store_outcome' = [store_outcome EXCEPT ![r] =
                                [conn |-> get_db_connection(conn_code),
                                 exec |-> IF out.executed THEN ExecClass(exec_code)
                                          ELSE "not_run",
                                 timed_out |-> IF out.executed
                                               THEN exec_code \in TimeoutCodes
                                               ELSE conn_code \in TimeoutCodes,
                                 \* connection.close() is the statement after
                                 \* the with block and nowhere else
                                 connection_open |->
                                     get_db_connection(conn_code) = "connection"
                                     /\ out.raised # "none"]]
                /\ response' = [response EXCEPT ![r] = map_save_outcome(out)]
                /\ pc' = [pc EXCEPT ![r] = AfterStep("persist", out.raised = "none")]
                /\ done' = [done EXCEPT ![r] =
                              Append(@, [step |-> "persist", ok |-> out.raised = "none"])]
    /\ save_calls' = [save_calls EXCEPT ![r] = @ + 1]
    /\ responses' = [responses EXCEPT ![r] = @ + 1]
    /\ running' = {}
    /\ UNCHANGED << config_vars, call_vars, boot_vars, init_vars, schema_vars, now, token, body,
                    raw_data, processed_data >>

\* the response has been handed to the transport: the task ends and its
\* locals are dropped
Finish(r) ==
    /\ pc[r] = "responded"
    /\ pc' = [pc EXCEPT ![r] = "finished"]
    /\ token' = [token EXCEPT ![r] = None]
    /\ body' = [body EXCEPT ![r] = NoBody]
    /\ raw_data' = [raw_data EXCEPT ![r] = NoRaw]
    /\ processed_data' = [processed_data EXCEPT ![r] = NoEvent]
    /\ response' = [response EXCEPT ![r] = NoResponse]
    /\ alerts' = [alerts EXCEPT ![r] = << >>]
    /\ done' = [done EXCEPT ![r] = << >>]
    /\ save_calls' = [save_calls EXCEPT ![r] = 0]
    /\ store_outcome' = [store_outcome EXCEPT ![r] = NoOutcome]
    /\ UNCHANGED << config_vars, call_vars, boot_vars, init_vars, schema_vars, rows, now, running, responses >>

Handle(r) ==
    \/ Arrive(r)
    \/ CheckSecret(r)
    \/ SelectPartner(r)
    \/ ReadBody(r)
    \/ Validate(r)
    \/ VerifyToken(r)
    \/ Parse(r)
    \/ Normalize(r)
    \/ Persist(r)
    \/ Finish(r)

Next ==
    \/ InitAttempt
    \/ Tick
    \/ \E r \in Reqs : Handle(r)

Spec == Init /\ [][Next]_vars

\* the behaviours in which init_db managed to add the unique key
NextWithIndex == Next /\ (init_state' = "ready" => unique_index')

SpecWithIndex == Init /\ [][NextWithIndex]_vars

(***************************************************************************)
(* The adapter's normalization on its own: process_data called on each     *)
(* payload of a domain that has both required fields and every kind of     *)
(* value in the optional ones.                                             *)
(***************************************************************************)
StatusInputs ==
    { Absent, None, "", ListValue, JsonNumber,
      "waiting", "WAITING", "pending", "Pending",
      "completed", "Completed", "COMPLETED", "confirmed", "CONFIRMED",
      "approved", "Approved",
      "rejected", "REJECTED", "cancelled", "CANCELLED", "canceled", "Canceled",
      "declined", "Declined",
      "unknown", "UNKNOWN", "refunded", "Refunded", "paid" }

AmountInputs == { Absent, None, "", "0", "10", " 10 ", "-5", "abc", ListValue, JsonNumber }

IntInputs == { Absent, "", "3", "abc", ListValue }

CallPayloads ==
    { Payload("c1", "o1", u, s, rv, cf, ti) :
        u \in {Absent, "u1"}, s \in StatusInputs, rv \in AmountInputs,
        cf \in {Absent, "25", "-5", "abc"}, ti \in IntInputs }

InitCall ==
    /\ Init
    /\ secret_token = "ABC123"
    /\ ~smtp_configured

\* one call of EpnBzPartner.process_data; the adapter keeps nothing from one
\* call to the next, so a behaviour makes one call
CallProcessData ==
    /\ call_data = NoRaw
    /\ \E data \in CallPayloads :
         /\ call_data' = data
         /\ call_result' = CallResult(process_data(data))
    /\ UNCHANGED call_request
    /\ UNCHANGED << config_vars, boot_vars, init_vars, schema_vars, rows, now,
                    request_vars >>

SpecCall == InitCall /\ [][CallProcessData]_vars

(***************************************************************************)
(* process_data called once on payloads that differ in the three fields    *)
(* the uniq_id of the event comes from: a uniq_id that is missing, null    *)
(* (JSON null), empty or given, and order numbers and click ids with and   *)
(* without the separator of the synthesized id in them.                    *)
(***************************************************************************)
UniqIdInputs == { Absent, None, "", "u1" }

OrderNumberInputs == { Absent, "o1", "a", "a_b" }

ClickIdInputs == { Absent, "c1", "c", "b_c" }

SynthPayloads ==
    { Payload(c, o, u, s, Absent, Absent, Absent) :
        c \in ClickIdInputs, o \in OrderNumberInputs, u \in UniqIdInputs,
        s \in { Absent, "waiting", "completed" } }

\* one call of EpnBzPartner.process_data on a payload of SynthPayloads
CallSynthesize ==
    /\ call_data = NoRaw
    /\ \E data \in SynthPayloads :
         /\ call_data' = data
         /\ call_result' = CallResult(process_data(data))
    /\ UNCHANGED call_request
    /\ UNCHANGED << config_vars, boot_vars, init_vars, schema_vars, rows, now,
                    request_vars >>

SpecSynth == InitCall /\ [][CallSynthesize]_vars

(***************************************************************************)
(* The adapter's parse_webhook followed by process_data, called on         *)
(* requests whose payload does or does not use the names of the transport  *)
(* metadata and whose transport values vary.                               *)
(***************************************************************************)
TransportRequests ==
    { Request(kind, WithMetadataKeys(Fields("c1", "o1", u, "waiting", "10"), ip, ua),
              forwarded_for, peer, user_agent) :
        kind \in {"object", "raw_text"},
        u \in {Absent, "u1"},
        ip \in {Absent, "6.6.6.6", ListValue},
        ua \in {Absent, "", "spoofed"},
        forwarded_for \in {Absent, "", "203.0.113.5, 10.0.0.1"},
        peer \in {None, "192.0.2.10"},
        user_agent \in {Absent, "EPN-Webhook/1.0"} }

\* one call of parse_webhook and, when it returns, of process_data; the
\* adapter keeps nothing from one call to the next
CallParseWebhook ==
    /\ call_request = NoBody
    /\ \E request \in TransportRequests :
         LET parsed == parse_webhook(request) IN
         /\ call_request' = request
         /\ call_data' = IF parsed.ok THEN parsed.data ELSE NoRaw
         /\ call_result' = IF parsed.ok THEN CallResult(process_data(parsed.data))
                           ELSE CallResult(parsed)
    /\ UNCHANGED << config_vars, boot_vars, init_vars, schema_vars, rows, now,
                    request_vars >>

SpecTransport == InitCall /\ [][CallParseWebhook]_vars

(***************************************************************************)
(* A service that receives no request: lifespan awaits init_db, a single   *)
(* task whose every blocking call returns or raises (connect_timeout,      *)
(* read_timeout, a finite sleep), so the loop always takes its next pass;  *)
(* afterwards only the store's clock moves.                                *)
(***************************************************************************)
SpecStartup == Init /\ [][InitAttempt \/ Tick]_vars /\ WF_vars(InitAttempt)

(***************************************************************************)
(* get_db_connection on its own, called once for every outcome of the      *)
(* driver: success, an exception that is no driver error, or a driver      *)
(* error with one of the server's or the client's error codes.             *)
(***************************************************************************)
\* 0: no error; -1: an exception that is no driver error (DATABASE_URL missing
\* or malformed, int(port_str) failing, ...); -2: a driver error without args,
\* which the handler reads as error_code 0; the rest: e.args[0]
DriverCodes == {0, -1, -2} \cup (1000..1199) \cup (2000..2061)

\* one call of get_db_connection
CallGetDbConnection ==
    /\ call_result = NoCall
    /\ \E code \in DriverCodes :
         call_result' = [ok |-> get_db_connection(code) = "connection",
                         status |-> code,
                         detail |-> get_db_connection(code),
                         event |-> NoEvent]
    /\ UNCHANGED << call_request, call_data >>
    /\ UNCHANGED << config_vars, boot_vars, init_vars, schema_vars, rows, now,
                    request_vars >>

SpecConnect == InitCall /\ [][CallGetDbConnection]_vars

(***************************************************************************)
(* Schema initialisation statement by statement: several runs of init_db   *)
(* against one store that is reachable.  The store executes one statement  *)
(* at a time; a run can be overtaken by another between any two of its     *)
(* statements (two processes starting together, or one run after another). *)
(***************************************************************************)
UniqueKeyName == "unique_partner_uniq_status"

\* the list indexes of init_db
SecondaryIndexes ==
    << "idx_partner_status", "idx_created_at", "idx_uniq_id", "idx_click_id",
       "idx_order_number", "idx_partner_created", "idx_revenue_commission",
       "idx_event_type", "idx_offer_id" >>

AllIndexNames ==
    {UniqueKeyName} \cup {SecondaryIndexes[k] : k \in 1..Len(SecondaryIndexes)}

\* an except block around ALTER TABLE that lets the error go on
alter_error_handler_strict(message) == [log |-> "error", raises |-> TRUE]

\* the except blocks around the ALTER TABLE statements: the error is logged,
\* as info when the index is already there and as a warning otherwise
alter_error_handler(message) ==
    [log |-> IF message = "Duplicate key name" THEN "info" ELSE "warning",
     raises |-> FALSE]

\* ALTER TABLE ... ADD [UNIQUE] KEY name by instance i, which goes on at
\* position after: error 1061 "Duplicate key name" when the index is there,
\* otherwise the index is added or the store refuses for another reason
AlterAddKey(i, name, after) ==
    \E refused \in BOOLEAN :
      /\ refused => name \notin boot_store.indexes
                    /\ boot_alter_failures < MaxAlterFailures
      /\ LET message == IF name \in boot_store.indexes THEN "Duplicate key name"
                        ELSE IF refused THEN "other" ELSE ""
             failed == message # ""
         IN  /\ boot_store' = IF failed THEN boot_store
                              ELSE [boot_store EXCEPT !.indexes = @ \cup {name}]
             /\ boot_alter_failures' = IF message = "other"
                                       THEN boot_alter_failures + 1
                                       ELSE boot_alter_failures
             /\ boot_pc' = [boot_pc EXCEPT ![i] =
                              IF failed /\ alter_error_handler(message).raises
                              THEN [at |-> "raised", k |-> 0]
                              ELSE after]

\* get_db_connection() and SELECT DATABASE()
BootConnect(i) ==
    /\ boot_pc[i].at = "idle"
    /\ boot_pc' = [boot_pc EXCEPT ![i] = [at |-> "create_table", k |-> 0]]
    /\ UNCHANGED << boot_store, boot_alter_failures >>
    /\ UNCHANGED << config_vars, call_vars, init_vars, schema_vars, rows, now,
                    request_vars >>

\* CREATE TABLE IF NOT EXISTS and SHOW TABLES LIKE
BootCreateTable(i) ==
    /\ boot_pc[i].at = "create_table"
    /\ boot_store' = [boot_store EXCEPT !.table = TRUE]
    /\ boot_pc' = [boot_pc EXCEPT ![i] = [at |-> "add_unique", k |-> 0]]
    /\ UNCHANGED boot_alter_failures
    /\ UNCHANGED << config_vars, call_vars, init_vars, schema_vars, rows, now,
                    request_vars >>

\* ALTER TABLE ... ADD UNIQUE KEY unique_partner_uniq_status
BootAddUnique(i) ==
    /\ boot_pc[i].at = "add_unique"
    /\ AlterAddKey(i, UniqueKeyName, [at |-> "add_index", k |-> 1])
    /\ UNCHANGED << config_vars, call_vars, init_vars, schema_vars, rows, now,
                    request_vars >>

\* one pass of the loop over indexes
BootAddIndex(i) ==
    /\ boot_pc[i].at = "add_index"
    /\ AlterAddKey(i, SecondaryIndexes[boot_pc[i].k],
                   IF boot_pc[i].k < Len(SecondaryIndexes)
                   THEN [at |-> "add_index", k |-> boot_pc[i].k + 1]
                   ELSE [at |-> "describe", k |-> 0])
    /\ UNCHANGED << config_vars, call_vars, init_vars, schema_vars, rows, now,
                    request_vars >>

\* DESCRIBE, connection.close() and return
BootDescribe(i) ==
    /\ boot_pc[i].at = "describe"
    /\ boot_pc' = [boot_pc EXCEPT ![i] = [at |-> "returned", k |-> 0]]
    /\ UNCHANGED << boot_store, boot_alter_failures >>
    /\ UNCHANGED << config_vars, call_vars, init_vars, schema_vars, rows, now,
                    request_vars >>

BootStep(i) ==
    \/ BootConnect(i)
    \/ BootCreateTable(i)
    \/ BootAddUnique(i)
    \/ BootAddIndex(i)
    \/ BootDescribe(i)

BootNext == \E i \in Instances : BootStep(i)

InitBoot ==
    /\ Init
    /\ secret_token = "ABC123"
    /\ ~smtp_configured

SpecBoot == InitBoot /\ [][BootNext]_vars

(***************************************************************************)
(* Properties.                                                             *)
(***************************************************************************)
Responded(r) == pc[r] = "responded"

\* request r has just come back from save_webhook_event with its row written
Saved(r) ==
    /\ pc[r] = "persist"
    /\ pc'[r] = "responded"
    /\ store_outcome'[r].exec = "ok"

RowsOfKey(rs, k) == {x \in rs : ConflictKey(x) = k}

\* C1: after any sequence of save_webhook_event calls the table holds at most
\* one row for each conflict key (partner, uniq_id, order_status).
C1_AtMostOneRowPerKey ==
    \A x, y \in rows : ConflictKey(x) = ConflictKey(y) => x = y

\* C2: when an event is saved whose conflict key already has a row, the table
\* holds exactly one row of that key afterwards, its created_at is that of the
\* row found and its updated_at is strictly greater than that of the row found.
C2_RedeliveryAdvancesUpdatedAt ==
    [][\A r \in Reqs :
         Saved(r) =>
           \A x \in RowsOfKey(rows, ConflictKey(processed_data[r])) :
             \E y \in rows' :
               /\ RowsOfKey(rows', ConflictKey(processed_data[r])) = {y}
               /\ y.created_at = x.created_at
               /\ y.updated_at > x.updated_at]_vars

\* C3: a request whose get_db_connection raised DatabaseConnectionError is
\* answered 503, and by then send_error_email has been called exactly once for
\* it, with the normalized event and its raw payload.
C3_UnreachableStoreIs503WithAlert ==
    \A r \in Reqs :
      Responded(r) /\ store_outcome[r].conn = "DatabaseConnectionError" =>
        /\ response[r].status = 503
        /\ Len(alerts[r]) = 1
        /\ alerts[r][1].webhook_data = processed_data[r]
        /\ alerts[r][1].webhook_data.raw_data = raw_data[r]
        /\ \A f \in {"click_id", "order_number", "uniq_id", "order_status",
                     "revenue", "commission_fee", "type_id"} :
             raw_data[r][f] = body[r].fields[f]

C3_Witness ==
    \E r \in Reqs :
      /\ Responded(r)
      /\ store_outcome[r].conn = "DatabaseConnectionError"
      /\ response[r].status = 503
      /\ Len(alerts[r]) = 1

\* C4: a store failure of class Operation that is no duplicate, raised while
\* the connection is acquired or while the upsert executes, ends the request
\* with 503 and an alert.
C4_OperationFailureIs503 ==
    \A r \in Reqs :
      Responded(r)
      /\ (store_outcome[r].conn = "DatabaseOperationError"
          \/ store_outcome[r].exec = "operation_error") =>
        /\ response[r].status = 503
        /\ Len(alerts[r]) >= 1

\* C5: a raw "Duplicate entry" failure of the upsert ends the request with 200
\* and database_status duplicate_handled, and no alert is sent for it.
C5_DuplicateEntryIs200NoAlert ==
    \A r \in Reqs :
      Responded(r) /\ store_outcome[r].exec = "duplicate_entry" =>
        /\ response[r].status = 200
        /\ response[r].database_status = "duplicate_handled"
        /\ alerts[r] = << >>

\* C6: a store operation that timed out, while connecting or while the upsert
\* ran, ends the request with 503 and never with 500.
C6_TimeoutIs503 ==
    \A r \in Reqs :
      Responded(r) /\ store_outcome[r].timed_out => response[r].status = 503

\* C7: with a secret configured, a request whose token differs from it is
\* answered 401 and is never parsed, normalized, saved or alerted about; a
\* request with the right token, a body that parses and normalizes and a store
\* that connects and executes is answered 200.
C7_WrongTokenIs401 ==
    \A r \in Reqs :
      /\ Truthy(secret_token) /\ Truthy(token[r]) /\ token[r] # secret_token =>
           /\ raw_data[r] = NoRaw
           /\ processed_data[r] = NoEvent
           /\ save_calls[r] = 0
           /\ store_outcome[r] = NoOutcome
           /\ alerts[r] = << >>
           /\ pc[r] \in {"secret_check", "responded"}
           /\ Responded(r) => response[r].status = 401
      /\ Responded(r) /\ token[r] = secret_token
         /\ processed_data[r] # NoEvent
         /\ store_outcome[r].conn = "connection" /\ store_outcome[r].exec = "ok" =>
           response[r].status = 200

C7_Witness ==
    \E r \in Reqs :
      /\ Responded(r)
      /\ Truthy(secret_token)
      /\ token[r] = "WRONGTOKEN"
      /\ response[r].status = 401
      /\ rows # {}

\* C8: with no secret configured every request is answered 500 whatever its
\* token, and none reaches the store.
C8_NoSecretIs500 ==
    ~Truthy(secret_token) =>
      /\ rows = {}
      /\ \A r \in Reqs :
           /\ save_calls[r] = 0
           /\ store_outcome[r] = NoOutcome
           /\ processed_data[r] = NoEvent
           /\ Responded(r) => response[r].status = 500

C8_Witness ==
    /\ ~Truthy(secret_token)
    /\ \E r \in Reqs : Responded(r) /\ token[r] = "ABC123" /\ response[r].status = 500
    /\ \E r \in Reqs : pc[r] = "finished"

MissingClickId(data) == ~Truthy(Get(data, "click_id"))

MissingOrderNumber(data) == ~Truthy(Get(data, "order_number"))

\* C9: a request whose payload lacks click_id or order_number (key missing or
\* value empty) is answered 400 with a detail that names the missing field,
\* and save_webhook_event is never called for it.
C9_MissingFieldIs400 ==
    \A r \in Reqs :
      raw_data[r] # NoRaw
      /\ (MissingClickId(raw_data[r]) \/ MissingOrderNumber(raw_data[r])) =>
        /\ save_calls[r] = 0
        /\ store_outcome[r] = NoOutcome
        /\ processed_data[r] = NoEvent
        /\ pc[r] \in {"normalize", "responded"}
        /\ Responded(r) =>
             /\ response[r].status = 400
             /\ response[r].detail =
                  IF MissingClickId(raw_data[r])
                  THEN "Missing required field: click_id"
                  ELSE "Missing required field: order_number"

C9_Witness ==
    \E r \in Reqs :
      /\ Responded(r)
      /\ raw_data[r] # NoRaw
      /\ ~MissingClickId(raw_data[r])
      /\ MissingOrderNumber(raw_data[r])
      /\ response[r].status = 400
      /\ rows # {}

\* the order of the steps as the claim gives it
C10_Order ==
    << "secret_check", "partner_selection", "body_read", "validation",
       "token_verification", "parse", "normalize", "persist" >>

\* C10: the steps a request has run are a prefix of secret check, partner
\* selection, body read, validation, token verification, parse, normalize,
\* persist; every step but the last one run succeeded; a failed step is the
\* last one and the request has its response; there is never more than one
\* response; save_webhook_event is called at most once, and only after the
\* seven earlier steps succeeded.
C10_LinearPipeline ==
    \A r \in Reqs :
      /\ Len(done[r]) <= Len(C10_Order)
      /\ \A i \in 1..Len(done[r]) : done[r][i].step = C10_Order[i]
      /\ \A i \in 1..(Len(done[r]) - 1) : done[r][i].ok
      /\ (\E i \in 1..Len(done[r]) : ~done[r][i].ok) => Responded(r)
      /\ responses[r] <= 1
      /\ Responded(r) => responses[r] = 1 /\ response[r] # NoResponse
      /\ responses[r] = 1 => pc[r] \in {"responded", "finished"}
      /\ save_calls[r] <= 1
      /\ save_calls[r] = 1 =>
           /\ Len(done[r]) = Len(C10_Order)
           /\ processed_data[r] # NoEvent
      /\ Responded(r) /\ Len(done[r]) < Len(C10_Order) =>
           ~done[r][Len(done[r])].ok /\ response[r].status # 200

C10_Witness ==
    \E r, q \in Reqs :
      /\ Responded(r)
      /\ save_calls[r] = 1
      /\ response[r].status = 200
      /\ pc[q] = "finished"
      /\ responses[q] = 1

\* C11: a save leaves exactly one row of the saved event's conflict key, the
\* updatable columns of that row (event_type, revenue, raw_data) are all those
\* of the saved event, and the rows of every other conflict key are the same
\* before and after the save, whatever other requests are in flight.
C11_OneRowFromOneDelivery ==
    [][\A r \in Reqs :
         Saved(r) =>
           LET ev == processed_data[r]
               k == ConflictKey(ev)
           IN  /\ \E y \in rows' :
                    /\ RowsOfKey(rows', k) = {y}
                    /\ y.event_type = ev.event_type
                    /\ y.revenue = ev.revenue
                    /\ y.raw_data = ev.raw_data
               /\ {x \in rows : ConflictKey(x) # k}
                    = {y \in rows' : ConflictKey(y) # k}]_vars

\* request r has just been saved by the update branch of the upsert: the
\* statement found a row of the event's conflict key and added none
Collided(r) ==
    /\ Saved(r)
    /\ {x.id : x \in rows'} = {x.id : x \in rows}

\* C12: when a save collides on the conflict key, the stored row takes every
\* non-key value of the new event (event_type, click_id, order_number,
\* type_id, revenue, commission_fee, raw_data), its processed_at and its
\* updated_at become the time of the save, and its id, its created_at and its
\* conflict key stay as stored.
C12_CollisionOverwritesAllNonKey ==
    [][\A r \in Reqs :
         Collided(r) =>
           LET ev == processed_data[r] IN
           \A x \in RowsOfKey(rows, ConflictKey(ev)) :
             \E y \in rows' :
               /\ y.id = x.id
               /\ ConflictKey(y) = ConflictKey(x)
               /\ y.created_at = x.created_at
               /\ y.updated_at = now
               /\ y.processed_at = now
               /\ y.event_type = ev.event_type
               /\ y.click_id = ev.click_id
               /\ y.order_number = ev.order_number
               /\ y.type_id = ev.type_id
               /\ y.revenue = ev.revenue
               /\ y.commission_fee = ev.commission_fee
               /\ y.raw_data = ev.raw_data]_vars

\* the columns the update branch does write, and the ones it keeps
C12_ListedColumnsOnly ==
    [][\A r \in Reqs :
         Collided(r) =>
           LET ev == processed_data[r] IN
           \A x \in RowsOfKey(rows, ConflictKey(ev)) :
             \E y \in rows' :
               /\ y.id = x.id
               /\ ConflictKey(y) = ConflictKey(x)
               /\ y.created_at = x.created_at
               /\ y.processed_at = x.processed_at
               /\ y.click_id = x.click_id
               /\ y.order_number = x.order_number
               /\ y.updated_at = now
               /\ y.event_type = ev.event_type
               /\ y.type_id = ev.type_id
               /\ y.revenue = ev.revenue
               /\ y.commission_fee = ev.commission_fee
               /\ y.raw_data = ev.raw_data]_vars

\* request r ended on an exception that is no HTTPException and none of the
\* store's two error classes: request.body() raised, or cursor.execute
\* raised a driver error
UnexpectedFailure(r) ==
    /\ Responded(r)
    /\ \/ /\ done[r][Len(done[r])].step = "body_read"
          /\ ~done[r][Len(done[r])].ok
       \/ store_outcome[r].exec \in {"duplicate_entry", "timeout", "operation_error"}

\* C13: a request that ended on an unexpected failure is answered 500 and
\* send_error_email has been called for it; when the request had a normalized
\* event, the alert carries that event.
C13_UnexpectedFailureIs500WithAlert ==
    \A r \in Reqs :
      UnexpectedFailure(r) =>
        /\ response[r].status = 500
        /\ Len(alerts[r]) >= 1
        /\ processed_data[r] # NoEvent =>
             alerts[r][1].webhook_data = processed_data[r]

\* the part of C13 that concerns failures inside save_webhook_event
C13_StoreExecutionOnly ==
    \A r \in Reqs :
      Responded(r)
      /\ store_outcome[r].exec \in {"duplicate_entry", "timeout", "operation_error"} =>
        /\ response[r].status = 500
        /\ Len(alerts[r]) = 1
        /\ alerts[r][1].webhook_data = processed_data[r]

\* the status the coordinator decides from what the store did, the alert
\* left aside
StatusOfStoreOutcome(o) ==
    CASE o.conn = "DatabaseConnectionError" -> 503
      [] o.conn = "DatabaseOperationError" -> 503
      [] o.conn = "connection" /\ o.exec = "ok" -> 200
      [] OTHER -> 500

\* C14: no call of send_error_email raises; a call whose transport is not
\* configured or fails returns False; and the status of a request that
\* reached the store is the one decided by the store's outcome alone, whether
\* its alert was sent, failed or skipped.
C14_AlertNeverChangesStatus ==
    /\ \A i \in 1..Len(init_alerts) :
         /\ ~init_alerts[i].raised
         /\ init_alerts[i].result # "sent" => ~init_alerts[i].returned
    /\ \A r \in Reqs :
         /\ \A i \in 1..Len(alerts[r]) :
              /\ ~alerts[r][i].raised
              /\ alerts[r][i].result # "sent" => ~alerts[r][i].returned
         /\ Responded(r) /\ save_calls[r] = 1 =>
              response[r].status = StatusOfStoreOutcome(store_outcome[r])

C14_Witness ==
    \E r \in Reqs :
      /\ Responded(r)
      /\ store_outcome[r].conn = "DatabaseConnectionError"
      /\ Len(alerts[r]) = 1
      /\ alerts[r][1].result = "failed"
      /\ ~alerts[r][1].returned
      /\ response[r].status = 503

\* the input is one of the status names or synonyms the adapter lists,
\* whatever its letter case
ListedStatus(status) ==
    /\ Truthy(status)
    /\ status \notin NonStrings
    /\ Lower(status) \in {"waiting", "pending", "completed", "confirmed", "approved",
                          "rejected", "cancelled", "canceled", "declined"}

\* C15: the order_status of an event that process_data returned is one of
\* waiting, pending, completed, rejected, unknown, and it is unknown whenever
\* the input status is absent or is none of the listed names and synonyms.
C15_StatusInEnum ==
    call_result.ok =>
      /\ call_result.event.order_status
           \in {"waiting", "pending", "completed", "rejected", "unknown"}
      /\ ~ListedStatus(call_data.order_status) =>
           call_result.event.order_status = "unknown"

\* C16: completed, confirmed, approved in any letter case give status
\* completed and event type order.completed; cancelled, canceled, declined,
\* rejected give rejected and order.rejected; waiting gives order.created,
\* pending gives order.pending; every other normalized status gives
\* order.unknown; the event type is never empty.
C16_StatusAndEventType ==
    call_result.ok =>
      LET s == call_data.order_status
          low == IF ListedStatus(s) THEN Lower(s) ELSE ""
          ev == call_result.event
      IN  /\ low \in {"completed", "confirmed", "approved"} =>
               ev.order_status = "completed" /\ ev.event_type = "order.completed"
          /\ low \in {"cancelled", "canceled", "declined", "rejected"} =>
               ev.order_status = "rejected" /\ ev.event_type = "order.rejected"
          /\ low = "waiting" =>
               ev.order_status = "waiting" /\ ev.event_type = "order.created"
          /\ low = "pending" =>
               ev.order_status = "pending" /\ ev.event_type = "order.pending"
          /\ ev.order_status \notin {"waiting", "pending", "completed", "rejected"} =>
               ev.event_type = "order.unknown"
          /\ ev.event_type \notin {"", None, Absent}

C16_Witness ==
    /\ call_result.ok
    /\ call_data.order_status = "CONFIRMED"
    /\ call_result.event.order_status = "completed"
    /\ call_result.event.event_type = "order.completed"

\* C17: for every payload whose click_id and order_number are not empty,
\* process_data returns an event, whatever the optional fields hold; a
\* malformed type_id is null in it, a malformed amount zero, a malformed
\* order_status unknown.
C17_OptionalFieldsNeverFail ==
    call_data # NoRaw /\ Truthy(call_data.click_id) /\ Truthy(call_data.order_number) =>
      /\ call_result.ok
      /\ call_data.order_status \in NonStrings =>
           call_result.event.order_status = "unknown"
      /\ call_data.type_id \in {"abc", ListValue} => call_result.event.type_id = None
      /\ call_data.revenue \in {"abc", ListValue} => call_result.event.revenue = 0

\* C18: the revenue and the commission_fee of an event that process_data
\* returned are numbers not below zero.
C18_AmountsNonNegative ==
    call_result.ok =>
      /\ call_result.event.revenue >= 0
      /\ call_result.event.commission_fee >= 0

\* the amount is absent, empty or nothing float() accepts
UnusableAmount(v) == v \in {Absent, None, ""} \/ ~ParseFloat(v).ok

\* the payload has both required fields and a status that can be normalized
Normalizable(data) ==
    /\ data # NoRaw
    /\ ~MissingClickId(data)
    /\ ~MissingOrderNumber(data)
    /\ data.order_status \notin NonStrings

\* C19: a request whose payload is otherwise valid and whose revenue or
\* commission_fee is absent, empty or no number gets that amount as 0 in its
\* event, goes on to save_webhook_event, is never answered 400, and is
\* answered 200 when the store connects and executes the statement.
C19_UnusableAmountIsZero ==
    \A r \in Reqs :
      \A f \in {"revenue", "commission_fee"} :
        Normalizable(raw_data[r]) /\ UnusableAmount(raw_data[r][f]) =>
          /\ pc[r] \in {"normalize", "persist", "responded"}
          /\ pc[r] # "normalize" =>
               processed_data[r] # NoEvent /\ processed_data[r][f] = 0
          /\ Responded(r) =>
               /\ save_calls[r] = 1
               /\ response[r].status # 400
               /\ store_outcome[r].conn = "connection"
                  /\ store_outcome[r].exec = "ok" => response[r].status = 200

C19_Witness ==
    \E r \in Reqs :
      /\ Responded(r)
      /\ raw_data[r].revenue = "abc"
      /\ raw_data[r].commission_fee = ""
      /\ processed_data[r].revenue = 0
      /\ processed_data[r].commission_fee = 0
      /\ response[r].status = 200

\* C20: when the statement of a request has been applied (the save returned,
\* or the connection was lost after the store had applied it) and the table
\* held a row of the same partner and uniq_id in another order_status, that
\* row is still there afterwards, unchanged, next to a distinct row of the
\* event's own conflict key.
C20_StatusFanOut ==
    [][\A r \in Reqs :
         Saved(r) \/ (pc[r] = "persist" /\ rows' # rows) =>
           LET ev == processed_data[r] IN
           \A x \in rows :
             /\ x.partner = ev.partner
             /\ x.uniq_id = ev.uniq_id
             /\ x.order_status # ev.order_status
             => /\ x \in rows'
                /\ \E y \in rows' :
                     /\ y.id # x.id
                     /\ y.partner = ev.partner
                     /\ y.uniq_id = ev.uniq_id
                     /\ y.order_status = ev.order_status]_vars

C20_Witness ==
    /\ unique_index
    /\ \E x, y \in rows :
         /\ x.id < y.id
         /\ x.uniq_id = "u1" /\ y.uniq_id = "u1"
         /\ x.order_status = "waiting" /\ y.order_status = "completed"
         /\ x.updated_at = x.created_at
         /\ y.created_at > x.created_at

\* C21: when a request whose payload has no uniq_id is saved, the uniq_id of
\* its event is the one synthesized from order_number and click_id alone, and
\* the table then holds exactly one row of the event's conflict key.
C21_SynthesizedIdOneRow ==
    [][\A r \in Reqs :
         Saved(r) /\ raw_data[r].uniq_id = Absent =>
           LET ev == processed_data[r] IN
           /\ ev.uniq_id = gen_uniq_id(raw_data[r].order_number, raw_data[r].click_id)
           /\ Cardinality(RowsOfKey(rows', ConflictKey(ev))) = 1]_vars

\* the first half of C21: the synthesized uniq_id is determined by
\* order_number and click_id
C21_SynthesizedIdIsFunction ==
    call_result.ok /\ call_data.uniq_id = Absent =>
      call_result.event.uniq_id
        = gen_uniq_id(call_data.order_number, call_data.click_id)

\* request q has been handed to the handler and waits only for the event loop:
\* it has not started, or its body has yet to be delivered by request.body()
Runnable(q) == pc[q] \in {"secret_check", "body_read"}

\* C22: while a request is in its store step (connection, upsert, alert),
\* every other request that waits for the event loop can take its next step.
C22_StoreStepYields ==
    \A r, q \in Reqs :
      r # q /\ pc[r] = "persist" /\ Runnable(q) =>
        ENABLED (CheckSecret(q) \/ ReadBody(q))

\* C23: with the store reachable, no init_db run raises, whether the runs
\* follow one another or interleave; a run that has not returned can always
\* take its next statement; an ALTER that finds its index there never ends a
\* run; and once all runs have returned the table exists and, unless the store
\* refused an ALTER for another reason, every index exists, which is what one
\* run alone leaves.
C23_InitIdempotent ==
    /\ \A i \in Instances :
         /\ boot_pc[i].at # "raised"
         /\ boot_pc[i].at # "returned" => ENABLED BootStep(i)
         /\ boot_pc[i].at \in {"add_unique", "add_index", "describe", "returned"} =>
              boot_store.table
    /\ (\A i \in Instances : boot_pc[i].at = "returned") /\ boot_alter_failures = 0 =>
         boot_store.indexes = AllIndexNames
    /\ (\E i \in Instances : boot_pc[i].at = "returned") /\ boot_alter_failures = 0 =>
         UniqueKeyName \in boot_store.indexes

C23_Witness ==
    /\ \A i \in Instances : boot_pc[i].at = "returned"
    /\ boot_alter_failures = 0
    /\ boot_store.table
    /\ boot_store.indexes = AllIndexNames

\* C24: the client_ip and the user_agent of an event are the client address
\* and the User-Agent header of the request that carried it, whatever the
\* payload holds under _client_ip and _user_agent; the same goes for the raw
\* data kept with the event.
C24_TechnicalFieldsFromTransport ==
    call_request # NoBody /\ call_result.ok =>
      LET address == IF call_request.forwarded_for \notin {Absent, None, ""}
                     THEN FirstHop(call_request.forwarded_for)
                     ELSE IF call_request.peer # None THEN call_request.peer
                     ELSE "unknown"
          agent == IF call_request.user_agent = Absent THEN ""
                   ELSE call_request.user_agent
      IN  /\ call_result.event.client_ip = address
          /\ call_result.event.user_agent = agent
          /\ call_result.event.raw_data._client_ip = address
          /\ call_result.event.raw_data._user_agent = agent

C24_Witness ==
    /\ call_result.ok
    /\ call_request.fields._client_ip = "6.6.6.6"
    /\ call_request.fields._user_agent = "spoofed"
    /\ call_request.peer = "192.0.2.10"
    /\ call_result.event.client_ip = "192.0.2.10"
    /\ call_result.event.user_agent = "EPN-Webhook/1.0"

\* the detail strings of the 5xx responses
ErrorDetails ==
    { "Service configuration error",
      "Database temporarily unavailable, please retry later",
      "Database operation error, please retry later",
      "Internal server error" }

\* C25: a 5xx response carries one of four constant detail strings and no
\* other content, and which one is decided by the class of the failure alone:
\* no secret configured, Connection error, Operation error, anything else.
C25_ConstantErrorBodies ==
    \A r \in Reqs :
      Responded(r) /\ response[r].status >= 500 =>
        /\ response[r].detail \in ErrorDetails
        /\ response[r].database_status = ""
        /\ response[r] =
             IF done[r][Len(done[r])].step = "secret_check"
             THEN Response(500, "Service configuration error", "")
             ELSE IF store_outcome[r].conn = "DatabaseConnectionError"
             THEN Response(503, "Database temporarily unavailable, please retry later", "")
             ELSE IF store_outcome[r].conn = "DatabaseOperationError"
             THEN Response(503, "Database operation error, please retry later", "")
             ELSE Response(500, "Internal server error", "")

C25_Witness ==
    \E r \in Reqs :
      /\ Responded(r)
      /\ store_outcome[r].conn = "DatabaseConnectionError"
      /\ ~store_outcome[r].timed_out
      /\ response[r] =
           Response(503, "Database temporarily unavailable, please retry later", "")

\* C26: get_db_connection returns a connection when the driver succeeds;
\* it raises DatabaseConnectionError for the driver's codes 2002, 2003, 2005,
\* 2006, 2013, 1045 and 1049 and for every exception that is no driver error
\* (DATABASE_URL missing or malformed among them), and DatabaseOperationError
\* for every other driver error; it raises nothing else.
C26_ConnectionErrorClasses ==
    call_result # NoCall =>
      LET code == call_result.status
          outcome == call_result.detail
      IN  /\ outcome \in {"connection", "DatabaseConnectionError", "DatabaseOperationError"}
          /\ outcome = "connection" <=> code = 0
          /\ outcome = "DatabaseConnectionError" <=>
               code \in {-1, 2002, 2003, 2005, 2006, 2013, 1045, 1049}

C26_Witness ==
    /\ call_result # NoCall
    /\ call_result.status = -1
    /\ call_result.detail = "DatabaseConnectionError"

\* the store step of request r has come back with an exception
StoreStepFailed(r) ==
    /\ save_calls[r] = 1
    /\ store_outcome[r].conn # "connection" \/ store_outcome[r].exec # "ok"

\* C27: a request whose store step failed has called send_error_email
\* exactly once, with the subject of the handler that caught the failure; a
\* request whose store step succeeded, and a request that never reached the
\* store, has called it not at all; the coordinator adds no call of its own.
C27_OneAlertPerStoreFailure ==
    \A r \in Reqs :
      /\ save_calls[r] <= 1
      /\ save_calls[r] = 0 => alerts[r] = << >>
      /\ Responded(r) /\ StoreStepFailed(r) =>
           /\ Len(alerts[r]) = 1
           /\ alerts[r][1].subject \in { "Database Connection Error",
                                         "Database Operation Error",
                                         "Unexpected Database Error" }
      /\ Responded(r) /\ save_calls[r] = 1 /\ ~StoreStepFailed(r) =>
           /\ alerts[r] = << >>
           /\ response[r].status = 200

C27_Witness ==
    \E r, q \in Reqs :
      /\ Responded(r)
      /\ StoreStepFailed(r)
      /\ store_outcome[r].exec = "operation_error"
      /\ Len(alerts[r]) = 1
      /\ q # r
      /\ responses[q] >= 1

RECURSIVE Doubled(_, _)
\* the delay after k doublings
Doubled(d, k) == IF k = 0 THEN d ELSE Doubled(2 * d, k - 1)

\* C28: init_db makes at most max_retries = 5 passes and then ends: a pass
\* that succeeds ends it at once without an alert; a failed pass other than
\* the fifth sleeps (the delay doubles with every sleep) and sends nothing;
\* the fifth failed pass sends exactly one alert without sleeping and
\* raises; once ended, init_db does nothing more.
C28_InitTerminates ==
    /\ [](/\ attempt \in 0..(max_retries - 1)
          /\ init_state = "starting" =>
               /\ init_alerts = << >>
               /\ retry_delay = Doubled(initial_retry_delay, attempt)
          /\ init_state = "ready" => init_alerts = << >>
          /\ init_state = "failed" =>
               /\ Len(init_alerts) = 1
               /\ attempt = max_retries - 1
               /\ retry_delay = Doubled(initial_retry_delay, max_retries - 1))
    /\ [][/\ init_state = "starting"
          /\ \/ init_state' = "ready" /\ init_alerts' = init_alerts
             \/ /\ init_state' = "starting"
                /\ attempt' = attempt + 1
                /\ retry_delay' = 2 * retry_delay
                /\ init_alerts' = init_alerts
             \/ /\ init_state' = "failed"
                /\ attempt = max_retries - 1
                /\ retry_delay' = retry_delay
                /\ Len(init_alerts') = 1
                /\ init_alerts'[1].subject \in
                     { "Database Initialization Failed",
                       "Database Initialization Unexpected Error" }]_init_vars
    /\ <>(init_state # "starting")

C28_Witness ==
    /\ init_state = "failed"
    /\ attempt = max_retries - 1
    /\ Len(init_alerts) = 1
    /\ init_alerts[1].result = "failed"
    /\ table_exists

\* C29: when save_webhook_event has returned or raised, the connection it
\* obtained from get_db_connection is closed.
C29_ConnectionsClosed ==
    \A r \in Reqs :
      Responded(r) /\ save_calls[r] = 1 => ~store_outcome[r].connection_open

\* C30: whenever init_db has returned successfully the unique index on
\* (partner, uniq_id, order_status) exists on the table.
C30_ReadyImpliesUniqueIndex ==
    init_state = "ready" => table_exists /\ unique_index

\* C31: every event process_data returns has a non-empty uniq_id; when the
\* payload has no usable uniq_id (the key missing, or its value null or
\* empty) it is the id synthesized from order_number and click_id.
C31_UniqIdNeverEmpty ==
    call_result.ok =>
      /\ Truthy(call_result.event.uniq_id)
      /\ ~Truthy(call_data.uniq_id) =>
           call_result.event.uniq_id
             = gen_uniq_id(call_data.order_number, call_data.click_id)

\* the part of C31 that concerns a payload without the key uniq_id
C31_MissingKeyIsSynthesized ==
    call_result.ok /\ call_data.uniq_id = Absent =>
      /\ Truthy(call_result.event.uniq_id)
      /\ call_result.event.uniq_id
           = gen_uniq_id(call_data.order_number, call_data.click_id)

\* C32: two payloads without uniq_id that differ in order_number or in
\* click_id never get the same synthesized uniq_id.
C32_SynthesizedIdInjective ==
    call_result.ok /\ call_data.uniq_id = Absent =>
      \A other \in SynthPayloads :
        /\ other.uniq_id = Absent
        /\ process_data(other).ok
        /\ \/ other.order_number # call_data.order_number
           \/ other.click_id # call_data.click_id
        => process_data(other).event.uniq_id # call_result.event.uniq_id

====
